---------------------------- MODULE Spec2Model ----------------------------
(***************************************************************************)
(* Model of the request-resolution pipeline of app.py: the handler        *)
(* api_summarize, the memoized remote call chamar_perplexity, the         *)
(* insertion-ordered RESPONSE_CACHE and the retrying HTTP session.         *)
(*                                                                         *)
(* Each request is served by one thread of the web server; a thread's     *)
(* position in the code is its pc.  Every access to the shared dictionary *)
(* RESPONSE_CACHE is a step of its own, so that the sequential             *)
(* specifications (one thread) and the concurrent one (several threads)   *)
(* are built from the same actions.                                        *)
(***************************************************************************)
EXTENDS Integers, Sequences, FiniteSets, TLC

(***************************************************************************)
(* Program constants.                                                      *)
(***************************************************************************)
CACHE_LIMIT == 50
KEY_PREFIX == 5000
MAX_TEXT_LENGTH == 100000
MIN_TEXT_LENGTH == 10
RETRY_TOTAL == 3
STATUS_FORCELIST == {500, 502, 503, 504}
DEFAULT_STYLE == "curto"
STYLE_PROMPTS == [curto |-> 1000, detalhado |-> 3000, el5 |-> 1500, riscos |-> 2000]

(***************************************************************************)
(* Bounds of the model.                                                    *)
(***************************************************************************)
\* number of different completions the remote model may return for one prompt
NumVariants == 2
\* calls served in one behaviour of Spec and of SpecConc
MaxCalls == 3
\* calls beyond CACHE_LIMIT served in one behaviour of SpecFill
ExtraCalls == 3
\* threads of the web server
NumThreads == 2

Threads == 1..NumThreads
FillCalls == CACHE_LIMIT + ExtraCalls

(***************************************************************************)
(* Strings.                                                                *)
(***************************************************************************)
\* s[:n] of Python
Prefix(s, n) == IF Len(s) <= n THEN s ELSE SubSeq(s, 1, n)

IsSpace(c) == c \in {" ", "\t", "\n"}

\* str.strip(): leading and trailing whitespace removed
RECURSIVE LStrip(_)
LStrip(s) ==
    IF Len(s) = 0 THEN s
    ELSE IF IsSpace(SubSeq(s, 1, 1)) THEN LStrip(SubSeq(s, 2, Len(s)))
    ELSE s

RECURSIVE RStrip(_)
RStrip(s) ==
    IF Len(s) = 0 THEN s
    ELSE IF IsSpace(SubSeq(s, Len(s), Len(s))) THEN RStrip(SubSeq(s, 1, Len(s) - 1))
    ELSE s

Strip(s) == RStrip(LStrip(s))

\* n copies of s
RECURSIVE Rep(_, _)
Rep(s, n) ==
    IF n = 0 THEN ""
    ELSE IF n % 2 = 1 THEN s \o Rep(s, n - 1)
    ELSE LET h == Rep(s, n \div 2) IN h \o h

Digit == <<"0", "1", "2", "3", "4", "5", "6", "7", "8", "9">>

(***************************************************************************)
(* The absent value (None of Python; a missing form field).               *)
(***************************************************************************)
None == "<none>"

\* an f-string field: None prints as "None"
Fmt(x) == IF x = None THEN "None" ELSE x

\* not x, for a string or None
Falsy(x) == x = None \/ x = ""

(***************************************************************************)
(* Style catalogue, prompts and cache key (chamar_perplexity, 136-169).   *)
(***************************************************************************)
\* STYLE_PROMPTS.get(estilo_key, STYLE_PROMPTS["curto"]): the entry used
StyleConfig(estilo) ==
    IF estilo \in DOMAIN STYLE_PROMPTS THEN estilo ELSE DEFAULT_STYLE

\* f"{texto[:5000]}-{estilo_key}-{custom_prompt}"
InputSignature(texto, estilo, custom) ==
    Prefix(texto, KEY_PREFIX) \o "-" \o Fmt(estilo) \o "-" \o Fmt(custom)

\* hashlib.md5(...).hexdigest(), taken to be injective on its input
Md5(s) == "md5(" \o s \o ")"

CacheKey(texto, estilo, custom) == Md5(InputSignature(texto, estilo, custom))

\* the system and user messages and the token limit sent to the remote API
BuildPrompts(texto, estilo, custom) ==
    [persona |-> StyleConfig(estilo),
     chars |-> Len(texto),
     text |-> Prefix(texto, MAX_TEXT_LENGTH),
     request |-> IF Falsy(custom) THEN "" ELSE custom,
     max_tokens |-> STYLE_PROMPTS[StyleConfig(estilo)]]

\* response.json()["choices"][0]["message"]["content"]: the completion the
\* remote model wrote for this prompt; v tells its completions apart
Completion(prompt, v) == [prompt |-> prompt, variant |-> v]
NoPrompt ==
    [persona |-> None, chars |-> 0, text |-> None, request |-> None, max_tokens |-> 0]
NoCompletion == [prompt |-> NoPrompt, variant |-> 0]

(***************************************************************************)
(* The ordered dictionary RESPONSE_CACHE: a sequence of entries, oldest   *)
(* insertion first.  by is the request the value was computed for; the    *)
(* program does not store it.                                              *)
(***************************************************************************)
Keys(c) == {c[i].key : i \in 1..Len(c)}

\* key in RESPONSE_CACHE
Has(c, k) == k \in Keys(c)

\* RESPONSE_CACHE[key]
Entry(c, k) == c[CHOOSE i \in 1..Len(c) : c[i].key = k]

\* faulty variant of OldestKey: the key inserted last
MostRecentKey(c) == c[Len(c)].key
\* next(iter(RESPONSE_CACHE)): the first key in insertion order
OldestKey(c) == c[1].key

\* RESPONSE_CACHE.pop(key), for a key that is present
RECURSIVE Without(_, _)
Without(c, k) ==
    IF Len(c) = 0 THEN c
    ELSE IF Head(c).key = k THEN Tail(c)
    ELSE <<Head(c)>> \o Without(Tail(c), k)

\* faulty variant of Put: nothing is stored once the cache is at its limit
PutIfRoom(c, e) ==
    IF Len(c) >= CACHE_LIMIT THEN c
    ELSE IF Has(c, e.key)
    THEN [i \in 1..Len(c) |-> IF c[i].key = e.key THEN e ELSE c[i]]
    ELSE Append(c, e)
\* RESPONSE_CACHE[key] = value: a present key keeps its place
Put(c, e) ==
    IF Has(c, e.key)
    THEN [i \in 1..Len(c) |-> IF c[i].key = e.key THEN e ELSE c[i]]
    ELSE Append(c, e)

\* faulty variant of OverLimit: the comparison is >=
OverLimitOffByOne(n) == n >= CACHE_LIMIT
\* len(RESPONSE_CACHE) > 50
OverLimit(n) == n > CACHE_LIMIT


(***************************************************************************)
(* Requests and responses of POST /api/summarize.                          *)
(***************************************************************************)
\* src: where the text comes from ("file": an uploaded PDF, text is what
\* the PDF reader extracts; "form": a form field; "json": a JSON body).
\* A field the client did not send is None.
Req(src, text, style, custom) ==
    [src |-> src, text |-> text, style |-> style, custom |-> custom]
NoReq == Req(None, None, None, None)

MSG_PDF == "Nao foi possivel ler o PDF. Pode estar protegido ou ser uma imagem."
MSG_SHORT == "Texto insuficiente para analise."
MSG_CONFIG == "Erro de configuracao no servidor."
MSG_TIMEOUT == "A IA (Sonar-Pro) demorou demasiado a pensar. O documento pode ser muito complexo."
MSG_ERROR == "Erro ao processar: "

\* jsonify({"error": msg}), status
ErrorResponse(status, msg) == [status |-> status, error |-> msg, summary |-> NoCompletion]
\* jsonify({"summary": resumo})
SummaryResponse(resumo) == [status |-> 200, error |-> None, summary |-> resumo]
NoResponse == [status |-> 0, error |-> None, summary |-> NoCompletion]

\* extrair_texto_pdf: full_text if full_text.strip() else None
ExtractPdf(text) == IF text = None \/ Strip(text) = "" THEN None ELSE text

\* api_summarize, extraction of the input: texto_final
TextoFinal(r) ==
    IF r.src = "file" THEN ExtractPdf(r.text)
    ELSE IF Falsy(r.text) THEN "" ELSE r.text

\* faulty variant of TooShort: the text is not trimmed
TooShortUnstripped(t) == Falsy(t) \/ Len(t) < MIN_TEXT_LENGTH
\* not texto_final or len(texto_final.strip()) < 10
TooShort(t) == Falsy(t) \/ Len(Strip(t)) < MIN_TEXT_LENGTH

\* request.form.get(f) or (request.json.get(f) if request.is_json else dflt)
FieldOr(r, v, dflt) ==
    IF r.src = "json" THEN v
    ELSE IF Falsy(v) THEN dflt ELSE v

\* faulty variant of Translate: no clause for Timeout
TranslateNoTimeout(exc) == MSG_ERROR \o exc
\* except requests.exceptions.Timeout / except Exception: the message of
\* the RuntimeError that chamar_perplexity raises for exception exc
Translate(exc) ==
    IF exc = "Timeout" THEN MSG_TIMEOUT ELSE MSG_ERROR \o exc

(***************************************************************************)
(* The retrying session (get_session): one POST is attempted again after  *)
(* a connection-level failure or a status of the force list, at most      *)
(* RETRY_TOTAL times.                                                      *)
(***************************************************************************)
ConnFail == [kind |-> "connfail", status |-> 0, variant |-> 0]
TimedOut == [kind |-> "timeout", status |-> 0, variant |-> 0]
Http(status, v) == [kind |-> "http", status |-> status, variant |-> v]
NoOutcome == [kind |-> "none", status |-> 0, variant |-> 0]

\* faulty variant of Retryable: every error status is retried
RetryableAnyError(o) == o.kind \in {"connfail", "timeout"} \/ o.status >= 400
\* the attempt may be repeated: a connection-level failure (a timeout of
\* the attempt included) or a status of status_forcelist
Retryable(o) ==
    o.kind \in {"connfail", "timeout"} \/ o.status \in STATUS_FORCELIST

\* n attempts were made: another one is allowed
RetriesLeft(n) == n <= RETRY_TOTAL

\* what session.post raises once the retries are used up: requests reports
\* a timeout as Timeout or, wrapped by the retry machinery, as
\* ConnectionError; an exhausted status of the force list as RetryError
Raised(o) ==
    IF o.kind = "timeout" THEN {"Timeout", "ConnectionError"}
    ELSE IF o.kind = "connfail" THEN {"ConnectionError"}
    ELSE {"RetryError"}

(***************************************************************************)
(* State.                                                                  *)
(***************************************************************************)
VARIABLES
    apiKey,     \* PERPLEXITY_API_KEY is set
    cache,      \* RESPONSE_CACHE
    th,         \* per thread: the request it serves and its place in the code
    calls,      \* requests received so far
    inserted    \* the keys stored by RESPONSE_CACHE[cache_key] = result, in order

vars == <<apiKey, cache, th, calls, inserted>>

Idle ==
    [pc |-> "idle", req |-> NoReq, texto |-> None, estilo |-> None, custom |-> None,
     key |-> None, entered |-> FALSE, attempts |-> 0, last |-> NoOutcome, exc |-> None,
     result |-> NoCompletion, size |-> 0, victim |-> None,
     hit |-> FALSE, servedBy |-> <<None, None, None>>,
     again |-> FALSE, before |-> NoResponse, beforePosts |-> 0,
     response |-> NoResponse]

\* invocations of http_session.post made for the request of t
Posts(t) == IF t.attempts > 0 THEN 1 ELSE 0

\* the request is answered: the locals of the call are gone
Done(t, response) ==
    [t EXCEPT !.pc = "done", !.response = response,
              !.result = NoCompletion, !.size = 0, !.victim = None]

\* chamar_perplexity raises RuntimeError(msg); api_summarize answers 500
Raise(t, exc, msg) == Done([t EXCEPT !.exc = exc], ErrorResponse(500, msg))

EntryFor(texto, estilo, custom, v) ==
    [key |-> CacheKey(texto, estilo, custom),
     val |-> Completion(BuildPrompts(texto, estilo, custom), v),
     by |-> <<texto, estilo, custom>>]


(***************************************************************************)
(* api_summarize, lines 219-240: the input is extracted and validated.    *)
(* again, before and beforePosts record that the thread's previous        *)
(* request was the same one and was answered with a summary.               *)
(***************************************************************************)
Receive(p, r, limit) ==
    /\ th[p].pc \in {"idle", "done"}
    /\ calls < limit
    /\ calls' = calls + 1
    /\ LET t == th[p]
           texto == TextoFinal(r)
           again == t.pc = "done" /\ t.req = r /\ t.response.status = 200
           new == [Idle EXCEPT !.req = r, !.texto = texto, !.again = again,
                               !.before = IF again THEN t.response ELSE NoResponse,
                               !.beforePosts = IF again THEN Posts(t) ELSE 0]
       IN th' = [th EXCEPT ![p] =
                   IF r.src = "file" /\ Falsy(texto)
                   THEN Done(new, ErrorResponse(400, MSG_PDF))
                   ELSE IF TooShort(texto)
                   THEN Done(new, ErrorResponse(400, MSG_SHORT))
                   ELSE [new EXCEPT !.pc = "call",
                                    !.estilo = FieldOr(r, r.style, DEFAULT_STYLE),
                                    !.custom = FieldOr(r, r.custom, "")]]
    /\ UNCHANGED <<apiKey, cache, inserted>>

(***************************************************************************)
(* chamar_perplexity, lines 131-143: the credential, the cache key and    *)
(* the test cache_key in RESPONSE_CACHE.                                   *)
(***************************************************************************)
\* faulty variant of Configured: the credential is not looked at
CredentialIgnored(k) == TRUE
\* PERPLEXITY_API_KEY is truthy
Configured(k) == k

Enter(p) ==
    /\ th[p].pc = "call"
    /\ LET t == [th[p] EXCEPT !.entered = TRUE]
           k == CacheKey(t.texto, t.estilo, t.custom)
       IN th' = [th EXCEPT ![p] =
                   IF ~Configured(apiKey)
                   THEN Raise(t, "ConfigError", MSG_CONFIG)
                   ELSE [t EXCEPT !.key = k,
                                  !.pc = IF Has(cache, k) THEN "hit" ELSE "post"]]
    /\ UNCHANGED <<apiKey, cache, calls, inserted>>

(***************************************************************************)
(* Line 145: return RESPONSE_CACHE[cache_key].  The read is outside the   *)
(* try block: a KeyError reaches api_summarize as it is.                   *)
(***************************************************************************)
ReadHit(p) ==
    /\ th[p].pc = "hit"
    /\ LET t == th[p]
       IN th' = [th EXCEPT ![p] =
                   IF Has(cache, t.key)
                   THEN Done([t EXCEPT !.hit = TRUE,
                                       !.servedBy = Entry(cache, t.key).by],
                             SummaryResponse(Entry(cache, t.key).val))
                   ELSE Raise(t, "KeyError", "'" \o t.key \o "'")]
    /\ UNCHANGED <<apiKey, cache, calls, inserted>>

(***************************************************************************)
(* Lines 172-195 and 204-209: one attempt of http_session.post with       *)
(* outcome o, then raise_for_status and the parse of the body.            *)
(***************************************************************************)
Attempt(p, o) ==
    /\ th[p].pc = "post"
    /\ LET t == [th[p] EXCEPT !.attempts = @ + 1, !.last = o]
       IN \E exc \in Raised(o) :
            th' = [th EXCEPT ![p] =
                     IF Retryable(o) /\ RetriesLeft(t.attempts)
                     THEN t
                     ELSE IF Retryable(o)
                     THEN Raise(t, exc, Translate(exc))
                     ELSE IF o.status >= 400
                     THEN Raise(t, "HTTPError", Translate("HTTPError"))
                     ELSE IF o.variant = 0
                     THEN Raise(t, "JSONDecodeError", Translate("JSONDecodeError"))
                     ELSE [t EXCEPT !.pc = "cap",
                                    !.result = Completion(
                                        BuildPrompts(t.texto, t.estilo, t.custom),
                                        o.variant)]]
    /\ UNCHANGED <<apiKey, cache, calls, inserted>>

(***************************************************************************)
(* Lines 198-199: if len(RESPONSE_CACHE) > 50:                             *)
(*                    RESPONSE_CACHE.pop(next(iter(RESPONSE_CACHE)))       *)
(* The length, the iterator, its first key and the pop are four reads of  *)
(* the shared dictionary.  Exceptions are those of the try block.         *)
(***************************************************************************)
CapCheck(p) ==
    /\ th[p].pc = "cap"
    /\ th' = [th EXCEPT ![p].pc = IF OverLimit(Len(cache)) THEN "iter" ELSE "put"]
    /\ UNCHANGED <<apiKey, cache, calls, inserted>>

\* iter(RESPONSE_CACHE): the iterator remembers the size of the dictionary
Iter(p) ==
    /\ th[p].pc = "iter"
    /\ th' = [th EXCEPT ![p].pc = "next", ![p].size = Len(cache)]
    /\ UNCHANGED <<apiKey, cache, calls, inserted>>

\* next(...): RuntimeError when the dictionary changed size since iter
NextKey(p) ==
    /\ th[p].pc = "next"
    /\ LET t == th[p]
       IN th' = [th EXCEPT ![p] =
                   IF Len(cache) # t.size
                   THEN Raise(t, "RuntimeError", Translate("RuntimeError"))
                   ELSE [t EXCEPT !.pc = "pop", !.victim = OldestKey(cache)]]
    /\ UNCHANGED <<apiKey, cache, calls, inserted>>

\* RESPONSE_CACHE.pop(key): KeyError when the key is gone
Pop(p) ==
    /\ th[p].pc = "pop"
    /\ LET t == th[p]
       IN IF Has(cache, t.victim)
          THEN /\ cache' = Without(cache, t.victim)
               /\ th' = [th EXCEPT ![p].pc = "put"]
          ELSE /\ cache' = cache
               /\ th' = [th EXCEPT ![p] = Raise(t, "KeyError", Translate("KeyError"))]
    /\ UNCHANGED <<apiKey, calls, inserted>>

(***************************************************************************)
(* Lines 200-202 and 244: the result is stored and returned.               *)
(***************************************************************************)
Insert(p) ==
    /\ th[p].pc = "put"
    /\ LET t == th[p]
       IN /\ cache' = Put(cache, [key |-> t.key, val |-> t.result,
                                  by |-> <<t.texto, t.estilo, t.custom>>])
          /\ inserted' = Append(inserted, t.key)
          /\ th' = [th EXCEPT ![p] = Done(t, SummaryResponse(t.result))]
    /\ UNCHANGED <<apiKey, calls>>

(***************************************************************************)
(* Inputs.                                                                 *)
(***************************************************************************)
Ten == "0123456789"
Long == Rep("x", KEY_PREFIX)

\* document i of a series of different documents
DocText(i) == "terms doc " \o Digit[(i \div 10) + 1] \o Digit[(i % 10) + 1]
DocReq(i) == Req("form", DocText(i), None, None)
DocKey(i) == CacheKey(DocText(i), DEFAULT_STYLE, "")

\* RESPONSE_CACHE after documents 1..n were summarized one after another
Filled(n) == [i \in 1..n |-> EntryFor(DocText(i), DEFAULT_STYLE, "", 1)]

Requests ==
    { Req("form", Ten, "curto", "curto-"),
      Req("form", Ten \o "-curto", "curto", None),
      Req("json", Ten, "bogus", None),
      Req("form", Long \o "a", "riscos", None),
      Req("file", Long \o "b", "riscos", None),
      Req("form", "   hi   ", "curto", None),
      Req("form", " 123456789 ", None, None),
      Req("json", None, None, None),
      Req("file", " \n ", None, None) }

Outcomes ==
    {ConnFail, TimedOut}
        \cup {Http(s, 0) : s \in {400, 404} \cup STATUS_FORCELIST}
        \cup {Http(200, v) : v \in 0..NumVariants}

\* the outcomes used where the transport is not the subject
FewOutcomes == {ConnFail, Http(400, 0), Http(503, 0)} \cup {Http(200, v) : v \in 1..NumVariants}

(***************************************************************************)
(* Spec: requests served one after another by one thread, from an empty   *)
(* cache or from one that holds CACHE_LIMIT entries.                       *)
(***************************************************************************)
Init ==
    /\ apiKey \in BOOLEAN
    /\ cache \in {Filled(0), Filled(CACHE_LIMIT)}
    /\ th = [p \in Threads |-> Idle]
    /\ calls = 0
    /\ inserted = [i \in 1..Len(cache) |-> cache[i].key]

\* the steps of thread p between the arrival of its request and the answer
Serve(p, outcomes) ==
    \/ Enter(p)
    \/ ReadHit(p)
    \/ \E o \in outcomes : Attempt(p, o)
    \/ CapCheck(p)
    \/ Iter(p)
    \/ NextKey(p)
    \/ Pop(p)
    \/ Insert(p)

Next ==
    \/ \E r \in Requests : Receive(1, r, MaxCalls)
    \/ Serve(1, FewOutcomes)

Spec == Init /\ [][Next]_vars

(***************************************************************************)
(* SpecRetry: the transport with every outcome of an attempt, from a      *)
(* cache of CACHE_LIMIT entries.  A thread that serves a request keeps    *)
(* running: each attempt ends, by a response, a failure or the timeout of *)
(* 120 s.                                                                  *)
(***************************************************************************)
RetryRequests ==
    { Req("form", Ten, "curto", None),
      Req("json", Ten \o " terms", "el5", "datas"),
      Req("form", "   hi   ", "curto", None) }

InitRetry ==
    /\ apiKey = TRUE
    /\ cache = Filled(CACHE_LIMIT)
    /\ th = [p \in Threads |-> Idle]
    /\ calls = 0
    /\ inserted = [i \in 1..Len(cache) |-> cache[i].key]

NextRetry ==
    \/ \E r \in RetryRequests : Receive(1, r, MaxCalls)
    \/ Serve(1, Outcomes)

SpecRetry == InitRetry /\ [][NextRetry]_vars /\ WF_vars(Serve(1, Outcomes))

(***************************************************************************)
(* SpecFill: the cache is filled from empty, one request after another.   *)
(* A request asks for the next new document, for the first document, or   *)
(* for the document that is the oldest or the newest of the cache.        *)
(***************************************************************************)
NextDoc == Cardinality({inserted[i] : i \in 1..Len(inserted)}) + 1

FillDocs ==
    {i \in 1..FillCalls :
        \/ i = NextDoc
        \/ i = 1
        \/ Len(cache) > 0 /\ DocKey(i) \in {cache[1].key, cache[Len(cache)].key}}

FillOutcomes == {Http(200, 1), Http(400, 0)}

InitFill ==
    /\ apiKey = TRUE
    /\ cache = <<>>
    /\ th = [p \in Threads |-> Idle]
    /\ calls = 0
    /\ inserted = <<>>

NextFill ==
    \/ \E i \in FillDocs : Receive(1, DocReq(i), FillCalls)
    \/ Serve(1, FillOutcomes)

SpecFill == InitFill /\ [][NextFill]_vars

(***************************************************************************)
(* SpecConc: the threads of the server take requests at the same time;    *)
(* their steps interleave.  The cache starts with CACHE_LIMIT - 1 to      *)
(* CACHE_LIMIT + 1 entries, as sequential requests leave it.              *)
(***************************************************************************)
ConcRequests ==
    { Req("form", Ten, "curto", None),
      Req("form", Ten \o " v2", "curto", None) }

ConcOutcomes == {Http(200, v) : v \in 1..NumVariants}

InitConc ==
    /\ apiKey = TRUE
    /\ cache \in {Filled(n) : n \in (CACHE_LIMIT - 1)..(CACHE_LIMIT + 1)}
    /\ th = [p \in Threads |-> Idle]
    /\ calls = 0
    /\ inserted = [i \in 1..Len(cache) |-> cache[i].key]

NextConc ==
    \E p \in Threads :
        \/ \E r \in ConcRequests : Receive(p, r, MaxCalls)
        \/ Serve(p, ConcOutcomes)

SpecConc == InitConc /\ [][NextConc]_vars

(***************************************************************************)
(* Properties.                                                             *)
(***************************************************************************)
Answered(p) == th[p].pc = "done"

\* C1: with the credential present, a request that repeats the request
\* just answered with a summary is answered without any invocation of the
\* transport, with exactly that summary, and the two requests together
\* invoked the transport at most once.
C1_RepeatServedFromCache ==
    \A p \in Threads :
        (apiKey /\ Answered(p) /\ th[p].again) =>
            /\ th[p].attempts = 0
            /\ th[p].response.status = 200
            /\ th[p].response = th[p].before
            /\ th[p].beforePosts + Posts(th[p]) <= 1

\* a repeat of a request that was a cache miss answered by the transport,
\* made while the cache holds more than CACHE_LIMIT entries
C1_Witness ==
    /\ apiKey /\ Answered(1) /\ th[1].again /\ th[1].hit
    /\ th[1].beforePosts = 1
    /\ Len(cache) > CACHE_LIMIT

\* C2: without the credential every call of chamar_perplexity ends in the
\* configuration error, never invokes the transport, and RESPONSE_CACHE
\* never changes.
C2_NoCredential ==
    /\ [](~apiKey =>
            \A p \in Threads :
                th[p].entered =>
                    /\ Answered(p)
                    /\ th[p].response = ErrorResponse(500, MSG_CONFIG)
                    /\ th[p].attempts = 0
                    /\ ~th[p].hit)
    /\ [][~apiKey => cache' = cache]_vars

C2_Witness ==
    ~apiKey /\ th[1].entered /\ Answered(1) /\ Len(cache) = CACHE_LIMIT

\* the text of the request of t is absent or shorter than 10 when trimmed
ShortText(t) ==
    \/ t.texto \in {None, ""}
    \/ Len(Strip(t.texto)) < 10

\* C5: a request whose resolved text is absent or shorter than 10
\* characters after trimming is answered 400 before chamar_perplexity is
\* entered: no cache lookup, no transport invocation, whatever the
\* credential, the style and the cache.
C5_ShortTextRejected ==
    \A p \in Threads :
        (th[p].pc # "idle" /\ ShortText(th[p])) =>
            /\ Answered(p)
            /\ th[p].response.status = 400
            /\ th[p].response.summary = NoCompletion
            /\ ~th[p].entered
            /\ th[p].attempts = 0
            /\ ~th[p].hit

\* a text of 11 characters, 9 of them left by the trim, was rejected
C5_Witness ==
    /\ Answered(1)
    /\ th[1].texto = " 123456789 "
    /\ th[1].response = ErrorResponse(400, MSG_SHORT)

\* the triple the cache key stands for
KeyTriple(texto, estilo, custom) == <<Prefix(texto, KEY_PREFIX), estilo, custom>>

\* C10: a request is answered from the cache only with a summary computed
\* for the same triple (first 5000 characters of the text, style
\* identifier, custom instruction).
C10_HitOnlySameTriple ==
    \A p \in Threads :
        th[p].hit =>
            KeyTriple(th[p].servedBy[1], th[p].servedBy[2], th[p].servedBy[3])
                = KeyTriple(th[p].texto, th[p].estilo, th[p].custom)

\* the outcome of an attempt after which the claims allow another attempt
Transient(o) ==
    \/ o.kind \in {"connfail", "timeout"}
    \/ o.kind = "http" /\ o.status \in {500, 502, 503, 504}

InsertedKeys == {inserted[i] : i \in 1..Len(inserted)}

\* from the empty cache exactly n requests were made and answered, each
\* stored its summary, and their keys are pairwise distinct
DistinctRun(n) ==
    /\ calls = n
    /\ Answered(1)
    /\ Len(inserted) = n
    /\ Cardinality(InsertedKeys) = n

\* C3, as stated: after CACHE_LIMIT + 1 successful requests with distinct
\* keys the cache holds CACHE_LIMIT keys and lacks the first one.
C3_FiftyAfterFiftyOne ==
    DistinctRun(CACHE_LIMIT + 1) =>
        /\ Len(cache) = CACHE_LIMIT
        /\ Keys(cache) = InsertedKeys \ {inserted[1]}

\* C3, amended: after CACHE_LIMIT + 1 such requests the cache holds all
\* CACHE_LIMIT + 1 keys; after CACHE_LIMIT + 2 it holds CACHE_LIMIT + 1 keys
\* and the one missing is the key inserted first.
C3_FiftyOneAfterFiftyTwo ==
    /\ DistinctRun(CACHE_LIMIT + 1) =>
            /\ Len(cache) = CACHE_LIMIT + 1
            /\ Keys(cache) = InsertedKeys
    /\ DistinctRun(CACHE_LIMIT + 2) =>
            /\ Len(cache) = CACHE_LIMIT + 1
            /\ Cardinality(Keys(cache)) = CACHE_LIMIT + 1
            /\ Keys(cache) = InsertedKeys \ {inserted[1]}

C3_Witness == DistinctRun(CACHE_LIMIT + 2)

\* the place in inserted of the latest insertion of key k
LastInsertion(k) ==
    CHOOSE i \in 1..Len(inserted) :
        /\ inserted[i] = k
        /\ \A j \in (i + 1)..Len(inserted) : inserted[j] # k

\* C4: a step that shrinks the cache removes exactly one entry, the one
\* whose insertion is the oldest among the entries of the cache; a cache
\* hit leaves the contents and the order of the cache as they are; an
\* insertion puts the new entry last.
C4_FifoEviction ==
    [][/\ Len(cache') < Len(cache) =>
            /\ cache' = Tail(cache)
            /\ \A k \in Keys(cache) :
                   LastInsertion(Head(cache).key) <= LastInsertion(k)
       /\ (th[1].pc = "hit" \/ th'[1].hit) => cache' = cache
       /\ Len(cache') > Len(cache) =>
            /\ Len(cache') = Len(cache) + 1
            /\ SubSeq(cache', 1, Len(cache)) = cache]_vars

\* the oldest entry was evicted in a run in which some earlier request was
\* a cache hit or failed
C4_Witness ==
    /\ th[1].pc = "put"
    /\ th[1].victim # None
    /\ ~Has(cache, th[1].victim)
    /\ calls > Len(inserted) + 1

\* C8: the cache never holds more than CACHE_LIMIT + 1 entries, also when
\* the steps of several requests interleave.
C8_AtMostFiftyOne == Len(cache) <= CACHE_LIMIT + 1

\* the remote API answered the request of thread p with a 2xx response
\* after a cache miss
MissAnswered2xx(p) ==
    /\ Answered(p)
    /\ th[p].attempts > 0
    /\ th[p].last.kind = "http"
    /\ th[p].last.status = 200
    /\ th[p].last.variant > 0

\* C9: when two requests both miss the cache and both get a 2xx response,
\* both are answered with their summary, and if they have the same key the
\* cache then maps it to the summary one of them wrote.
C9_BothSucceed ==
    \A p, q \in Threads :
        (p # q /\ MissAnswered2xx(p) /\ MissAnswered2xx(q)) =>
            /\ th[p].response.status = 200
            /\ th[q].response.status = 200
            /\ th[p].key = th[q].key =>
                   /\ Has(cache, th[p].key)
                   /\ Entry(cache, th[p].key).val
                          \in {th[p].response.summary, th[q].response.summary}

=============================================================================
